---- MODULE Spec2Model ----
(***************************************************************************)
(* Intersection admission control of the concurrent traffic simulation:    *)
(* WaitingVehicles (FIFO of vehicles and promises), Intersection           *)
(* (addVehicleToQueue, vehicleHasLeft, processVehicleQueue), TrafficLight  *)
(* (cycleThroughPhases, waitForGreen) and MessageQueue (send, receive).    *)
(* One intersection with its light, its dispatcher thread and NumVehicles  *)
(* vehicle threads.  Every step is one statement (or one critical section  *)
(* half) of the C++ source, so that the interleavings of the threads are   *)
(* the interleavings of the model.  _isBlocked and _currentPhase are plain *)
(* fields read and written without a lock; a read yields the value of the  *)
(* latest write in the interleaving.                                       *)
(***************************************************************************)
EXTENDS Integers, Sequences, FiniteSets, TLC

\* ---------------------------------------------------------------- bounds
NumVehicles == 3
MaxQueue == 2
MaxSends == 3
NumConsumers == 2
MaxRogueCalls == 1
MaxRemoved == 3        \* the count of values a waitForGreen has taken stops here
MaxSleep == 2          \* sleep_for(1 ms) lasts between 1 and MaxSleep milliseconds
DwellStep == 1000      \* the cycle durations drawn are DwellStep milliseconds apart

\* std::uniform_int_distribution<int> distribution(4000, 6000)
MinCycle == 4000
MaxCycle == 6000
distribution == {d \in MinCycle..MaxCycle : (d - MinCycle) % DwellStep = 0}

Vehicles == 1..NumVehicles
Dispatcher == NumVehicles + 1
Consumers == 1..NumConsumers
TrafficLightPhase == {"red", "green"}

VARIABLES
    pc,             \* position of each vehicle thread in addVehicleToQueue / vehicleHasLeft
    dpc,            \* position of the processVehicleQueue thread
    lpc,            \* position of the cycleThroughPhases thread
    _vehicles,      \* WaitingVehicles::_vehicles
    _promises,      \* WaitingVehicles::_promises (a promise is named by the vehicle that made it)
    promise,        \* shared state of each vehicle's promise/future pair
    _mutex,         \* WaitingVehicles::_mutex: set of its holder (empty when free)
    _isBlocked,     \* Intersection::_isBlocked
    _currentPhase,  \* TrafficLight::_currentPhase
    _queue,         \* MessageQueue::_queue
    _mtx,           \* TrafficObject::_mtx as locked by addVehicleToQueue: set of its holder
    ub,             \* permitEntryToFirstInQueue dereferenced begin() of an empty vector
    pushOrder,      \* history: vehicles in the order pushBack appended them
    grantOrder,     \* history: promises in the order set_value was called on them
    sawRed,         \* history: vehicles in transit whose light check read red
    gotGreen,       \* history: vehicles in transit whose waitForGreen received green
    greenSinceGrant,\* history: vehicles in transit granted before a red->green toggle
    stuck,          \* environment: vehicles that never call vehicleHasLeft
    rogueCalls,     \* environment: calls of vehicleHasLeft outside the protocol
    cpc,            \* channel harness: position of each consumer in receive()
    sentLog,        \* channel harness: values passed to send, in order
    rcvdLog,        \* channel harness: values returned by receive, in order
    popEmpty,       \* channel harness: receive() ran front()/pop_front() on an empty deque
    sentParity,     \* history: number of values the light has sent, modulo 2
    lastSent,       \* history: the value the light sent last ("none" before the first)
    outstanding,    \* history: values the light has sent minus values waitForGreen has received
    removed,        \* history: values each vehicle's running waitForGreen has taken so far
    calledGreen,    \* history: vehicles in transit that entered waitForGreen while green
    timeSinceLastUpdate, \* milliseconds between lastUpdate and the last reading of the clock
    cycleDuration,  \* the duration of the current cycle, drawn from the distribution
    lastInterval,   \* history: milliseconds between the last two toggles (0: fewer than two)
    lastDuration,   \* history: the cycleDuration that ended with the last toggle
    frameColor      \* the renderer's last reading of trafficLightIsGreen ("none" before)

vars == <<pc, dpc, lpc, _vehicles, _promises, promise, _mutex, _isBlocked,
          _currentPhase, _queue, _mtx, ub, pushOrder, grantOrder, sawRed,
          gotGreen, greenSinceGrant, stuck, rogueCalls, cpc, sentLog, rcvdLog,
          popEmpty, sentParity, lastSent, outstanding, removed, calledGreen,
          timeSinceLastUpdate, cycleDuration, lastInterval, lastDuration, frameColor>>

queueVars == <<_vehicles, _promises, promise, _mutex, ub, pushOrder, grantOrder>>
lightVars == <<lpc, _currentPhase, _queue>>
lightHist == <<sawRed, gotGreen, greenSinceGrant>>
envVars == <<stuck, rogueCalls>>
chanVars == <<cpc, sentLog, rcvdLog, popEmpty>>
sendHist == <<sentParity, lastSent, outstanding>>
callHist == <<removed, calledGreen>>
clockVars == <<timeSinceLastUpdate, cycleDuration, lastInterval, lastDuration>>

\* ------------------------------------------------------- MessageQueue<T>
\* variant: the message is appended twice
send_twice(q, msg) == Append(Append(q, msg), msg)

\* variant: the message replaces the last one that is still in the queue
send_coalesced(q, msg) == IF Len(q) > 0 THEN [q EXCEPT ![Len(q)] = msg] ELSE Append(q, msg)

\* variant: the message is dropped
send_lost(q, msg) == q

\* variant: the message is put at the front (push_front)
send_front(q, msg) == <<msg>> \o q

\* send: _queue.push_back(std::move(msg))
send(q, msg) == Append(q, msg)

\* variant: wait() without a predicate, any wakeup counts
notEmpty_unchecked(q) == Len(q) >= 0

\* receive: the wait predicate !_queue.empty()
notEmpty(q) == Len(q) > 0

\* receive: T msg = std::move(_queue.front())
front(q) == q[1]

\* variant: the value is taken from the back
pop_back(q) == SubSeq(q, 1, Len(q) - 1)

\* receive: _queue.pop_front()
pop_front(q) == SubSeq(q, 2, Len(q))

\* ------------------------------------------------------ WaitingVehicles
\* getSize: _vehicles.size()
getSize(vs) == Len(vs)

\* variant: the last element is taken (end() - 1)
begin_back(s) == Len(s)

\* begin() of a non-empty vector: the index of its first element
begin(s) == 1

\* variant: the element after the one named is erased too
erase_two(s, i) == SubSeq(s, 1, i - 1) \o SubSeq(s, i + 2, Len(s))

\* vector::erase(it)
erase(s, i) == SubSeq(s, 1, i - 1) \o SubSeq(s, i + 1, Len(s))

\* promise::set_value: a second call throws promise_already_satisfied
set_value(pr, p) ==
    IF pr[p] = "pending" THEN [pr EXCEPT ![p] = "fulfilled"]
                         ELSE [pr EXCEPT ![p] = "error"]

\* ---------------------------------------------------------- Intersection
\* setIsBlocked: _isBlocked = isBlocked
setIsBlocked(isBlocked) == _isBlocked' = isBlocked

\* variant: the flag is left as it is
vehicleHasLeft_keep(vehicle) == setIsBlocked(_isBlocked)

\* variant: only the vehicle whose addVehicleToQueue has returned clears the flag
vehicleHasLeft_checked(vehicle) ==
    setIsBlocked(IF pc[vehicle] = "crossing" THEN FALSE ELSE _isBlocked)

\* vehicleHasLeft: setIsBlocked(false), whoever the caller is
vehicleHasLeft(vehicle) == setIsBlocked(FALSE)

\* variant: both branches assign red
toggled_red(phase) == IF phase = "red" THEN "red" ELSE "red"

\* the toggle of cycleThroughPhases
toggled(phase) == IF phase = "red" THEN "green" ELSE "red"

\* variant: waitForGreen returns on the first message, whatever it is
isGreen_any(phase) == phase \in TrafficLightPhase

\* variant: waitForGreen never returns
isGreen_never(phase) == phase \notin TrafficLightPhase

\* waitForGreen: if (phase == TrafficLightPhase::green) return
isGreen(phase) == phase = "green"

\* ------------------------------------------------------------ vocabulary
Range(s) == {s[i] : i \in 1..Len(s)}

IsPrefix(s, t) == Len(s) <= Len(t) /\ \A i \in 1..Len(s) : s[i] = t[i]

\* addVehicleToQueue has returned for v, which has not yet called vehicleHasLeft
crossing(v) == pc[v] = "crossing"

\* addVehicleToQueue has returned for v
returned(v) == pc[v] \in {"crossing", "departed"}

\* vehicles between the fulfilment of their ticket and their vehicleHasLeft
admitted == {v \in Vehicles : promise[v] = "fulfilled" /\ pc[v] # "departed"}

\* ------------------------------------------------------------------ Init
InitProgram ==
    /\ pc = [v \in Vehicles |-> "idle"]
    /\ dpc = "getSize"
    /\ lpc = "tick"
    /\ _vehicles = <<>>
    /\ _promises = <<>>
    /\ promise = [v \in Vehicles |-> "none"]
    /\ _mutex = {}
    /\ _isBlocked = FALSE
    /\ _currentPhase = "red"
    /\ _queue = <<>>
    /\ _mtx = {}
    /\ ub = FALSE
    /\ pushOrder = <<>>
    /\ grantOrder = <<>>
    /\ sawRed = {}
    /\ gotGreen = {}
    /\ greenSinceGrant = {}
    /\ rogueCalls = 0
    /\ cpc = [c \in Consumers |-> "idle"]
    /\ sentLog = <<>>
    /\ rcvdLog = <<>>
    /\ popEmpty = FALSE
    /\ sentParity = 0
    /\ lastSent = "none"
    /\ outstanding = 0
    /\ removed = [v \in Vehicles |-> 0]
    /\ calledGreen = {}
    /\ timeSinceLastUpdate = 0
    /\ lastInterval = 0
    /\ lastDuration = 0
    /\ frameColor = "none"

\* every vehicle calls vehicleHasLeft once it has crossed
Init == InitProgram /\ stuck = {} /\ cycleDuration = MinCycle

\* one vehicle never calls vehicleHasLeft
InitStuck == InitProgram /\ cycleDuration = MinCycle /\ \E v \in Vehicles : stuck = {v}

\* ------------------------------------------- Intersection::addVehicleToQueue
\* variant: the arrival is logged without _mtx
addVehicleToQueue_log_free(v) ==
    /\ pc[v] = "idle"
    /\ pc' = [pc EXCEPT ![v] = "pushBack"]
    /\ UNCHANGED <<dpc, queueVars, _isBlocked, lightVars, _mtx, lightHist, envVars, chanVars, sendHist, callHist, clockVars, frameColor>>

\* lck(_mtx); std::cout << ...; lck.unlock()
addVehicleToQueue_log(v) ==
    /\ pc[v] = "idle"
    /\ _mtx = {}
    /\ pc' = [pc EXCEPT ![v] = "pushBack"]
    /\ UNCHANGED <<dpc, queueVars, _isBlocked, lightVars, _mtx, lightHist, envVars, chanVars, sendHist, callHist, clockVars, frameColor>>

\* promise and future are created; pushBack takes _mutex and appends the vehicle
pushBack_vehicle(v) ==
    /\ pc[v] = "pushBack"
    /\ _mutex = {}
    /\ _mutex' = {v}
    /\ promise' = [promise EXCEPT ![v] = "pending"]
    /\ _vehicles' = Append(_vehicles, v)
    /\ pushOrder' = Append(pushOrder, v)
    /\ pc' = [pc EXCEPT ![v] = "pushBack2"]
    /\ UNCHANGED <<dpc, _promises, ub, grantOrder, _isBlocked, lightVars, _mtx, lightHist, envVars, chanVars, sendHist, callHist, clockVars, frameColor>>

\* variant: the promise is inserted at the front
pushBack_promise_front(v) ==
    /\ pc[v] = "pushBack2"
    /\ _promises' = <<v>> \o _promises
    /\ _mutex' = {}
    /\ pc' = [pc EXCEPT ![v] = "wait"]
    /\ UNCHANGED <<dpc, _vehicles, promise, ub, pushOrder, grantOrder, _isBlocked, lightVars, _mtx, lightHist, envVars, chanVars, sendHist, callHist, clockVars, frameColor>>

\* pushBack appends the promise and releases _mutex
pushBack_promise(v) ==
    /\ pc[v] = "pushBack2"
    /\ _promises' = Append(_promises, v)
    /\ _mutex' = {}
    /\ pc' = [pc EXCEPT ![v] = "wait"]
    /\ UNCHANGED <<dpc, _vehicles, promise, ub, pushOrder, grantOrder, _isBlocked, lightVars, _mtx, lightHist, envVars, chanVars, sendHist, callHist, clockVars, frameColor>>

\* variant: the vehicle does not wait for its future
future_wait_skip(v) ==
    /\ pc[v] = "wait"
    /\ pc' = [pc EXCEPT ![v] = "lock"]
    /\ UNCHANGED <<dpc, queueVars, _isBlocked, lightVars, _mtx, lightHist, envVars, chanVars, sendHist, callHist, clockVars, frameColor>>

\* ftrVehicleAllowedToEnter.wait()
future_wait(v) ==
    /\ pc[v] = "wait"
    /\ promise[v] = "fulfilled"
    /\ pc' = [pc EXCEPT ![v] = "lock"]
    /\ UNCHANGED <<dpc, queueVars, _isBlocked, lightVars, _mtx, lightHist, envVars, chanVars, sendHist, callHist, clockVars, frameColor>>

\* variant: the grant is logged without _mtx
addVehicleToQueue_lock_free(v) ==
    /\ pc[v] = "lock"
    /\ _mtx' = _mtx
    /\ pc' = [pc EXCEPT ![v] = "checkPhase"]
    /\ UNCHANGED <<dpc, queueVars, _isBlocked, lightVars, lightHist, envVars, chanVars, sendHist, callHist, clockVars, frameColor>>

\* lck.lock(); std::cout << ... " is granted entry."
addVehicleToQueue_lock(v) ==
    /\ pc[v] = "lock"
    /\ _mtx = {}
    /\ _mtx' = {v}
    /\ pc' = [pc EXCEPT ![v] = "checkPhase"]
    /\ UNCHANGED <<dpc, queueVars, _isBlocked, lightVars, lightHist, envVars, chanVars, sendHist, callHist, clockVars, frameColor>>

\* variant: waitForGreen is called without the check of the phase
addVehicleToQueue_checkPhase_always(v) ==
    /\ pc[v] = "checkPhase"
    /\ pc' = [pc EXCEPT ![v] = "waitForGreen"]
    /\ sawRed' = IF _currentPhase = "red" THEN sawRed \cup {v} ELSE sawRed
    /\ UNCHANGED <<dpc, queueVars, _isBlocked, lightVars, _mtx, gotGreen, greenSinceGrant, envVars, chanVars, sendHist, callHist, clockVars, frameColor>>

\* if (_trafficLight.getCurrentPhase() == TrafficLightPhase::red)
addVehicleToQueue_checkPhase(v) ==
    /\ pc[v] = "checkPhase"
    /\ IF _currentPhase = "red"
          THEN /\ pc' = [pc EXCEPT ![v] = "waitForGreen"]
               /\ sawRed' = sawRed \cup {v}
          ELSE /\ pc' = [pc EXCEPT ![v] = "unlock"]
               /\ sawRed' = sawRed
    /\ UNCHANGED <<dpc, queueVars, _isBlocked, lightVars, _mtx, gotGreen, greenSinceGrant, envVars, chanVars, sendHist, callHist, clockVars, frameColor>>

\* _trafficLight.waitForGreen() is entered: the function reads no phase and
\* goes straight to its receive loop
waitForGreen_call(v) ==
    /\ pc[v] = "waitForGreen"
    /\ pc' = [pc EXCEPT ![v] = "receive"]
    /\ calledGreen' = IF _currentPhase = "green" THEN calledGreen \cup {v} ELSE calledGreen
    /\ UNCHANGED <<dpc, queueVars, _isBlocked, lightVars, _mtx, lightHist, envVars, chanVars, sendHist, removed, clockVars, frameColor>>

\* one round of the loop of waitForGreen: receive(), then return if green
waitForGreen(v) ==
    /\ pc[v] = "receive"
    /\ notEmpty(_queue)
    /\ _queue' = pop_front(_queue)
    /\ removed' = [removed EXCEPT ![v] = IF @ < MaxRemoved THEN @ + 1 ELSE @]
    /\ outstanding' = outstanding - 1
    /\ IF isGreen(front(_queue))
          THEN /\ pc' = [pc EXCEPT ![v] = "unlock"]
               /\ gotGreen' = IF front(_queue) = "green" THEN gotGreen \cup {v} ELSE gotGreen
          ELSE /\ pc' = pc
               /\ gotGreen' = gotGreen
    /\ UNCHANGED <<dpc, queueVars, _isBlocked, lpc, _currentPhase, _mtx, sawRed, greenSinceGrant, envVars, chanVars, sentParity, lastSent, calledGreen, clockVars, frameColor>>

\* variant: the returning vehicle clears the flag itself
addVehicleToQueue_return_clears(v) ==
    /\ pc[v] = "unlock"
    /\ _mtx' = {}
    /\ pc' = [pc EXCEPT ![v] = "crossing"]
    /\ setIsBlocked(FALSE)
    /\ UNCHANGED <<dpc, queueVars, lightVars, lightHist, envVars, chanVars, sendHist, callHist, clockVars, frameColor>>

\* lck.unlock(); addVehicleToQueue returns
addVehicleToQueue_return(v) ==
    /\ pc[v] = "unlock"
    /\ _mtx' = {}
    /\ pc' = [pc EXCEPT ![v] = "crossing"]
    /\ UNCHANGED <<dpc, queueVars, _isBlocked, lightVars, lightHist, envVars, chanVars, sendHist, callHist, clockVars, frameColor>>

\* the vehicle has crossed and calls vehicleHasLeft; its transit is over
Depart(v) ==
    /\ pc[v] = "crossing"
    /\ v \notin stuck
    /\ vehicleHasLeft(v)
    /\ pc' = [pc EXCEPT ![v] = "departed"]
    /\ sawRed' = sawRed \ {v}
    /\ gotGreen' = gotGreen \ {v}
    /\ greenSinceGrant' = greenSinceGrant \ {v}
    /\ removed' = [removed EXCEPT ![v] = 0]
    /\ calledGreen' = calledGreen \ {v}
    /\ UNCHANGED <<dpc, queueVars, lightVars, _mtx, envVars, chanVars, sendHist, clockVars, frameColor>>

Vehicle(v) ==
    \/ addVehicleToQueue_log(v)
    \/ pushBack_vehicle(v)
    \/ pushBack_promise(v)
    \/ future_wait(v)
    \/ addVehicleToQueue_lock(v)
    \/ addVehicleToQueue_checkPhase(v)
    \/ waitForGreen_call(v)
    \/ waitForGreen(v)
    \/ addVehicleToQueue_return(v)
    \/ Depart(v)

\* ----------------------------------------- Intersection::processVehicleQueue
\* variant: the size is compared with >= 0
processVehicleQueue_getSize_ge ==
    /\ dpc = "getSize"
    /\ _mutex = {}
    /\ dpc' = IF getSize(_vehicles) >= 0 THEN "readBlocked" ELSE "getSize"
    /\ UNCHANGED <<pc, queueVars, _isBlocked, lightVars, _mtx, lightHist, envVars, chanVars, sendHist, callHist, clockVars, frameColor>>

\* if (_waitingVehicles.getSize() > 0 && ...): the size is read under _mutex
processVehicleQueue_getSize ==
    /\ dpc = "getSize"
    /\ _mutex = {}
    /\ dpc' = IF getSize(_vehicles) > 0 THEN "readBlocked" ELSE "getSize"
    /\ UNCHANGED <<pc, queueVars, _isBlocked, lightVars, _mtx, lightHist, envVars, chanVars, sendHist, callHist, clockVars, frameColor>>

\* variant: the flag is not consulted
processVehicleQueue_ignoreBlocked ==
    /\ dpc = "readBlocked"
    /\ dpc' = "setIsBlocked"
    /\ UNCHANGED <<pc, queueVars, _isBlocked, lightVars, _mtx, lightHist, envVars, chanVars, sendHist, callHist, clockVars, frameColor>>

\* ... && !_isBlocked
processVehicleQueue_readBlocked ==
    /\ dpc = "readBlocked"
    /\ dpc' = IF ~_isBlocked THEN "setIsBlocked" ELSE "getSize"
    /\ UNCHANGED <<pc, queueVars, _isBlocked, lightVars, _mtx, lightHist, envVars, chanVars, sendHist, callHist, clockVars, frameColor>>

\* variant: the grant is not preceded by setIsBlocked(true)
processVehicleQueue_setIsBlocked_skip ==
    /\ dpc = "setIsBlocked"
    /\ _isBlocked' = _isBlocked
    /\ dpc' = "permit"
    /\ UNCHANGED <<pc, queueVars, lightVars, _mtx, lightHist, envVars, chanVars, sendHist, callHist, clockVars, frameColor>>

\* this->setIsBlocked(true)
processVehicleQueue_setIsBlocked ==
    /\ dpc = "setIsBlocked"
    /\ setIsBlocked(TRUE)
    /\ dpc' = "permit"
    /\ UNCHANGED <<pc, queueVars, lightVars, _mtx, lightHist, envVars, chanVars, sendHist, callHist, clockVars, frameColor>>

\* variant: set_value() is called before _mutex is taken
permitEntryToFirstInQueue_set_unlocked ==
    /\ dpc = "permit"
    /\ IF Len(_promises) = 0
          THEN /\ ub' = TRUE
               /\ dpc' = "ub"
               /\ UNCHANGED <<promise, grantOrder>>
          ELSE /\ promise' = set_value(promise, _promises[begin(_promises)])
               /\ grantOrder' = Append(grantOrder, _promises[begin(_promises)])
               /\ dpc' = "erase"
               /\ ub' = ub
    /\ UNCHANGED <<pc, _vehicles, _promises, _mutex, pushOrder, _isBlocked, lightVars, _mtx, lightHist, envVars, chanVars, sendHist, callHist, clockVars, frameColor>>

\* permitEntryToFirstInQueue takes _mutex and calls firstPromise->set_value()
permitEntryToFirstInQueue_set ==
    /\ dpc = "permit"
    /\ _mutex = {}
    /\ _mutex' = {Dispatcher}
    /\ IF Len(_promises) = 0
          THEN /\ ub' = TRUE
               /\ dpc' = "ub"
               /\ UNCHANGED <<promise, grantOrder>>
          ELSE /\ promise' = set_value(promise, _promises[begin(_promises)])
               /\ grantOrder' = Append(grantOrder, _promises[begin(_promises)])
               /\ dpc' = "erase"
               /\ ub' = ub
    /\ UNCHANGED <<pc, _vehicles, _promises, pushOrder, _isBlocked, lightVars, _mtx, lightHist, envVars, chanVars, sendHist, callHist, clockVars, frameColor>>

\* permitEntryToFirstInQueue erases both front elements and releases _mutex
permitEntryToFirstInQueue_erase ==
    /\ dpc = "erase"
    /\ _vehicles' = erase(_vehicles, begin(_vehicles))
    /\ _promises' = erase(_promises, begin(_promises))
    /\ _mutex' = {}
    /\ dpc' = "getSize"
    /\ UNCHANGED <<pc, promise, ub, pushOrder, grantOrder, _isBlocked, lightVars, _mtx, lightHist, envVars, chanVars, sendHist, callHist, clockVars, frameColor>>

processVehicleQueue ==
    \/ processVehicleQueue_getSize
    \/ processVehicleQueue_readBlocked
    \/ processVehicleQueue_setIsBlocked
    \/ permitEntryToFirstInQueue_set
    \/ permitEntryToFirstInQueue_erase

\* ------------------------------------------ TrafficLight::cycleThroughPhases
\* timeSinceLastUpdate >= cycleDuration: the phase is toggled. The dwell time is
\* abstracted to "at any moment"; the toggle waits while MaxQueue values are
\* buffered, which keeps the unbounded std::deque finite.
cycleThroughPhases_toggle ==
    /\ lpc = "tick"
    /\ Len(_queue) < MaxQueue
    /\ _currentPhase' = toggled(_currentPhase)
    /\ greenSinceGrant' = IF _currentPhase = "red"
                             THEN greenSinceGrant \cup admitted
                             ELSE greenSinceGrant
    /\ lpc' = "send"
    /\ UNCHANGED <<pc, dpc, queueVars, _isBlocked, _queue, _mtx, sawRed, gotGreen, envVars, chanVars, sendHist, callHist, clockVars, frameColor>>

\* _messageQueue.send(std::move(_currentPhase))
cycleThroughPhases_send ==
    /\ lpc = "send"
    /\ _queue' = send(_queue, _currentPhase)
    /\ lpc' = "tick"
    /\ sentParity' = (sentParity + 1) % 2
    /\ lastSent' = _currentPhase
    /\ outstanding' = IF outstanding <= MaxQueue THEN outstanding + 1 ELSE outstanding
    /\ UNCHANGED <<pc, dpc, queueVars, _isBlocked, _currentPhase, _mtx, lightHist, envVars, chanVars, callHist, clockVars, frameColor>>

cycleThroughPhases ==
    \/ cycleThroughPhases_toggle
    \/ cycleThroughPhases_send

\* ------------------------------------- cycleThroughPhases with its clock
\* variant: the comparison is one millisecond early
timeToToggle_early(timeSince, duration) == timeSince + 1 >= duration

\* if (timeSinceLastUpdate >= cycleDuration)
timeToToggle(timeSince, duration) == timeSince >= duration

\* one round of the loop: sleep_for(1 ms), which lasts ms milliseconds, the
\* reading of the clock, the comparison and, when the cycle is over, the toggle
cycleThroughPhases_tick(ms) ==
    /\ lpc = "tick"
    /\ Len(_queue) < MaxQueue
    /\ timeSinceLastUpdate' = timeSinceLastUpdate + ms
    /\ IF timeToToggle(timeSinceLastUpdate + ms, cycleDuration)
          THEN /\ _currentPhase' = toggled(_currentPhase)
               /\ greenSinceGrant' = IF _currentPhase = "red"
                                        THEN greenSinceGrant \cup admitted
                                        ELSE greenSinceGrant
               /\ lpc' = "send"
          ELSE UNCHANGED <<_currentPhase, greenSinceGrant, lpc>>
    /\ UNCHANGED <<pc, dpc, queueVars, _isBlocked, _queue, _mtx, sawRed, gotGreen, envVars, chanVars,
                   sendHist, callHist, cycleDuration, lastInterval, lastDuration, frameColor>>

\* after the toggle, in the same round: send, lastUpdate = now(), and a new
\* cycleDuration = distribution(eng)
cycleThroughPhases_update ==
    /\ lpc = "send"
    /\ _queue' = send(_queue, _currentPhase)
    /\ sentParity' = (sentParity + 1) % 2
    /\ lastSent' = _currentPhase
    /\ outstanding' = IF outstanding <= MaxQueue THEN outstanding + 1 ELSE outstanding
    /\ lastInterval' = IF lastSent = "none" THEN 0 ELSE timeSinceLastUpdate
    /\ lastDuration' = cycleDuration
    /\ timeSinceLastUpdate' = 0
    /\ cycleDuration' \in distribution
    /\ lpc' = "tick"
    /\ UNCHANGED <<pc, dpc, queueVars, _isBlocked, _currentPhase, _mtx, lightHist, envVars, chanVars,
                   callHist, frameColor>>

InitDwell == InitProgram /\ stuck = {} /\ cycleDuration \in distribution

NextDwell ==
    \/ \E ms \in 1..MaxSleep : cycleThroughPhases_tick(ms)
    \/ cycleThroughPhases_update

SpecDwell == InitDwell /\ [][NextDwell]_vars

\* ------------------------------------------------------------------ Next
Next ==
    \/ \E v \in Vehicles : Vehicle(v)
    \/ processVehicleQueue
    \/ cycleThroughPhases

\* ------------------------------------------------- environments of the claims
\* TrafficLight::getCurrentPhase: return _currentPhase, without a lock
getCurrentPhase == _currentPhase

\* Intersection::trafficLightIsGreen
trafficLightIsGreen == getCurrentPhase = "green"

\* variant: the renderer reads the phase under the mutex of the log
drawTrafficObjects_locked ==
    /\ _mtx = {}
    /\ frameColor' = IF trafficLightIsGreen THEN "green" ELSE "red"
    /\ UNCHANGED <<pc, dpc, queueVars, _isBlocked, lightVars, _mtx, lightHist, envVars, chanVars, sendHist, callHist, clockVars>>

\* the renderer thread colours the intersection by trafficLightIsGreen()
drawTrafficObjects ==
    /\ frameColor' = IF trafficLightIsGreen THEN "green" ELSE "red"
    /\ UNCHANGED <<pc, dpc, queueVars, _isBlocked, lightVars, _mtx, lightHist, envVars, chanVars, sendHist, callHist, clockVars>>

\* _mtx is shared by all traffic objects: an agent of another intersection
\* takes it for its log line or for its own light check and wait, and gives it
\* back; such agents keep arriving for as long as the simulation runs
Other == NumVehicles + 2

other_lock ==
    /\ _mtx = {}
    /\ _mtx' = {Other}
    /\ UNCHANGED <<pc, dpc, queueVars, _isBlocked, lightVars, lightHist, envVars, chanVars, sendHist, callHist, clockVars, frameColor>>

other_unlock ==
    /\ _mtx = {Other}
    /\ _mtx' = {}
    /\ UNCHANGED <<pc, dpc, queueVars, _isBlocked, lightVars, lightHist, envVars, chanVars, sendHist, callHist, clockVars, frameColor>>

NextShared ==
    \/ Next
    \/ other_lock
    \/ other_unlock

\* the threads are scheduled and the other agents leave _mtx again (their own
\* lights are scheduled); std::mutex promises no order among the threads that
\* wait for it, so lock() gets no more than weak fairness
SpecShared ==
    /\ Init
    /\ [][NextShared]_vars
    /\ WF_vars(processVehicleQueue)
    /\ WF_vars(cycleThroughPhases)
    /\ \A v \in Vehicles : WF_vars(Vehicle(v))
    /\ WF_vars(other_unlock)

NextRender ==
    \/ Next
    \/ drawTrafficObjects

SpecRender == Init /\ [][NextRender]_vars

\* a call of vehicleHasLeft outside the protocol: by any caller, at any time
RogueDepart(v) ==
    /\ rogueCalls < MaxRogueCalls
    /\ rogueCalls' = rogueCalls + 1
    /\ vehicleHasLeft(v)
    /\ UNCHANGED <<pc, dpc, queueVars, lightVars, _mtx, lightHist, stuck, chanVars, sendHist, callHist, clockVars, frameColor>>

NextRogue ==
    \/ Next
    \/ \E v \in Vehicles : RogueDepart(v)

\* the vehicles keep the protocol
Spec == Init /\ [][Next]_vars

\* the threads are scheduled: each thread that can take a step eventually does
SpecLive ==
    /\ Init
    /\ [][Next]_vars
    /\ WF_vars(processVehicleQueue)
    /\ WF_vars(cycleThroughPhases)
    /\ \A v \in Vehicles : WF_vars(Vehicle(v))

\* one admitted vehicle never departs
SpecStuck == InitStuck /\ [][Next]_vars

\* vehicleHasLeft may also be called outside the protocol
SpecRogue == Init /\ [][NextRogue]_vars

\* -------------------------------------------------- MessageQueue harness
\* variant: push_back without notify_one
ch_send_silent(msg) ==
    /\ Len(sentLog) < MaxSends
    /\ _queue' = send(_queue, msg)
    /\ sentLog' = Append(sentLog, msg)
    /\ cpc' = cpc
    /\ UNCHANGED <<pc, dpc, lpc, _currentPhase, queueVars, _isBlocked, _mtx, lightHist, envVars, rcvdLog, popEmpty, sendHist, callHist, clockVars, frameColor>>

\* send(msg): push_back under the mutex, then notify_one wakes one waiter, if any
ch_send(msg) ==
    /\ Len(sentLog) < MaxSends
    /\ _queue' = send(_queue, msg)
    /\ sentLog' = Append(sentLog, msg)
    /\ IF \E c \in Consumers : cpc[c] = "waiting"
          THEN \E c \in Consumers :
                  /\ cpc[c] = "waiting"
                  /\ cpc' = [cpc EXCEPT ![c] = "woken"]
          ELSE cpc' = cpc
    /\ UNCHANGED <<pc, dpc, lpc, _currentPhase, queueVars, _isBlocked, _mtx, lightHist, envVars, rcvdLog, popEmpty, sendHist, callHist, clockVars, frameColor>>

\* receive(): the predicate of wait() is checked under the mutex; when it holds
\* front() and pop_front() run (undefined on an empty deque: recorded in
\* popEmpty), otherwise the consumer sleeps on the condition variable
ch_receive(c) ==
    /\ cpc[c] \in {"idle", "woken"}
    /\ IF notEmpty(_queue)
          THEN /\ cpc' = [cpc EXCEPT ![c] = "idle"]
               /\ IF Len(_queue) = 0
                     THEN /\ popEmpty' = TRUE
                          /\ UNCHANGED <<rcvdLog, _queue>>
                     ELSE /\ rcvdLog' = Append(rcvdLog, front(_queue))
                          /\ _queue' = pop_front(_queue)
                          /\ popEmpty' = popEmpty
          ELSE /\ cpc' = [cpc EXCEPT ![c] = "waiting"]
               /\ UNCHANGED <<rcvdLog, _queue, popEmpty>>
    /\ UNCHANGED <<pc, dpc, lpc, _currentPhase, queueVars, _isBlocked, _mtx, lightHist, envVars, sentLog, sendHist, callHist, clockVars, frameColor>>

\* condition_variable::wait may return without a notification
ch_spurious(c) ==
    /\ cpc[c] = "waiting"
    /\ cpc' = [cpc EXCEPT ![c] = "woken"]
    /\ UNCHANGED <<pc, dpc, lightVars, queueVars, _isBlocked, _mtx, lightHist, envVars, sentLog, rcvdLog, popEmpty, sendHist, callHist, clockVars, frameColor>>

NextChannel ==
    \/ \E msg \in TrafficLightPhase : ch_send(msg)
    \/ \E c \in Consumers : ch_receive(c)
    \/ \E c \in Consumers : ch_spurious(c)

SpecChannel == Init /\ [][NextChannel]_vars

\* the channel of one intersection has one consumer at a time: the granted
\* vehicle, which holds _mtx from before its light check until it returns
TheConsumer == 1

\* a consumer that wait() has woken takes the mutex again and goes on
ch_wake(c) ==
    /\ cpc[c] = "woken"
    /\ ch_receive(c)

NextSingle ==
    \/ \E msg \in TrafficLightPhase : ch_send(msg)
    \/ ch_receive(TheConsumer)
    \/ ch_spurious(TheConsumer)

\* the woken thread is scheduled; sends, calls of receive and spurious wakeups
\* happen or not
SpecSingle ==
    /\ Init
    /\ [][NextSingle]_vars
    /\ WF_vars(ch_wake(TheConsumer))

\* ------------------------------------------------------------------ claims
\* C1: mutual exclusion of admission. With vehicles that call vehicleHasLeft
\* once and only after their addVehicleToQueue returned, at most one vehicle is
\* between grant and departure, and the k-th ticket is fulfilled only after
\* the vehicle of ticket k-1 has called vehicleHasLeft.
C1_MutualExclusion ==
    /\ Cardinality(admitted) <= 1
    /\ \A k \in 2..Len(grantOrder) : pc[grantOrder[k - 1]] = "departed"

C1_Witness ==
    /\ Len(grantOrder) = NumVehicles
    /\ returned(grantOrder[NumVehicles])
    /\ Len(_vehicles) = 0

\* C2: admission is strictly FIFO. The tickets are fulfilled in the order in
\* which pushBack appended the entries: the grants are a prefix of the pushes.
C2_Fifo == IsPrefix(grantOrder, pushOrder)

C2_Witness ==
    /\ dpc = "erase"
    /\ Len(_promises) >= 2
    /\ pushOrder[1] > pushOrder[2]

\* C3 as stated: blocked is true if and only if some ticket is fulfilled and
\* its vehicle has not departed, in every reachable state.
C3_BlockedIffAdmitted == _isBlocked <=> admitted # {}

\* C3 amended: an admitted vehicle implies blocked, and blocked implies an
\* admitted vehicle or a dispatcher that has set the flag and is about to
\* fulfil the front ticket.
C3_BlockedAmended ==
    /\ admitted # {} => _isBlocked
    /\ _isBlocked => (admitted # {} \/ dpc = "permit")

C3_Witness ==
    /\ _isBlocked
    /\ Len(grantOrder) = 2
    /\ pc[grantOrder[2]] = "crossing"

\* C4: light gating. addVehicleToQueue never returns before the ticket is
\* fulfilled, and when the light check read red it never returns without a
\* green value received from the message queue.
C4_LightGating ==
    \A v \in Vehicles :
        /\ returned(v) => promise[v] = "fulfilled"
        /\ (pc[v] \in {"unlock", "crossing"} /\ v \in sawRed) => v \in gotGreen

C4_Witness == \E v \in Vehicles : crossing(v) /\ v \in sawRed /\ v \in gotGreen

\* C6: ticket single-use. No promise is set twice, an entry has left the queue
\* only with its ticket fulfilled, and a fulfilled ticket still in the queue is
\* the front entry, inside the critical section that removes it.
C6_TicketSingleUse ==
    /\ \A v \in Vehicles : promise[v] # "error"
    /\ \A i, j \in 1..Len(grantOrder) : grantOrder[i] = grantOrder[j] => i = j
    /\ \A v \in Vehicles :
          (pc[v] \notin {"idle", "pushBack", "pushBack2"} /\ v \notin Range(_promises))
              => promise[v] = "fulfilled"
    /\ \A i \in 1..Len(_promises) :
          promise[_promises[i]] = "fulfilled" => (i = 1 /\ dpc = "erase")
    /\ dpc = "erase" => grantOrder[Len(grantOrder)] = _promises[1]

C6_Witness ==
    /\ dpc = "erase"
    /\ Len(grantOrder) = 2
    /\ Len(_promises) = 2

\* C5: when the light check of a granted vehicle read red, addVehicleToQueue
\* returns only after the light has toggled from red to green after the grant,
\* whatever the message queue held before.
C5_GreenAfterGrant ==
    \A v \in Vehicles : (crossing(v) /\ v \in sawRed) => v \in greenSinceGrant

\* C7: liveness. With bounded vehicles that each enter once and depart once
\* admitted, and scheduled threads, every enqueued ticket is eventually
\* fulfilled and the waiting queue eventually becomes and stays empty.
C7_Liveness ==
    <>[](/\ Len(_vehicles) = 0
         /\ Len(_promises) = 0
         /\ Range(pushOrder) = Vehicles
         /\ \A v \in Range(pushOrder) : promise[v] = "fulfilled")

C7_Witness ==
    /\ Len(grantOrder) = NumVehicles
    /\ Len(_vehicles) = 0
    /\ Len(_promises) = 0
    /\ \A v \in Vehicles : pc[v] \in {"crossing", "departed"}
    /\ sawRed # {}

\* C8: vehicleHasLeft clears blocked unconditionally, for every caller and
\* every value of the flag; mutual exclusion is lost only after a call outside
\* the protocol, which lets the dispatcher admit a second vehicle.
C8_UnconditionalClear ==
    /\ [][(\E v \in Vehicles : RogueDepart(v) \/ Depart(v)) => ~_isBlocked']_vars
    /\ [](Cardinality(admitted) > 1 => rogueCalls > 0)

C8_Witness ==
    /\ rogueCalls > 0
    /\ Cardinality({v \in Vehicles : pc[v] = "crossing"}) = 2

\* C9: an admitted vehicle that never calls vehicleHasLeft deadlocks the
\* intersection: from its grant on blocked is true, its ticket is the last one
\* fulfilled, and every other vehicle without a ticket stays before its grant.
C9_PermanentDeadlock ==
    \A v \in stuck :
        promise[v] = "fulfilled" =>
            /\ _isBlocked
            /\ grantOrder[Len(grantOrder)] = v
            /\ \A w \in Vehicles \ Range(grantOrder) :
                  pc[w] \in {"idle", "pushBack", "pushBack2", "wait"}

C9_Witness ==
    \E v \in stuck :
        /\ pc[v] = "crossing"
        /\ Len(grantOrder) = 2
        /\ grantOrder[2] = v
        /\ Len(_promises) = NumVehicles - 2
        /\ \A w \in Range(_promises) : pc[w] = "wait"
        /\ dpc = "readBlocked"

\* C10: message queue ordering. The values returned by receive are a prefix of
\* the values passed to send, in the same order; what is sent is either
\* returned once or still buffered, and nothing else is returned.
C10_ChannelOrder ==
    /\ IsPrefix(rcvdLog, sentLog)
    /\ sentLog = rcvdLog \o _queue

C10_Witness ==
    /\ Len(rcvdLog) = MaxSends
    /\ rcvdLog[1] # rcvdLog[2]
    /\ \E c \in Consumers : cpc[c] = "waiting"

\* C11: receive() never returns while the buffer is empty. A consumer woken on
\* an empty buffer goes back to waiting, every value returned was at the front
\* of a non-empty buffer, and front()/pop_front() never run on an empty deque.
C11_NoPopOnEmpty ==
    /\ [](~popEmpty)
    /\ [][rcvdLog' # rcvdLog => (Len(_queue) > 0 /\ Len(_queue') = Len(_queue) - 1)]_vars
    /\ [][\A c \in Consumers :
             (cpc[c] = "woken" /\ Len(_queue) = 0 /\ cpc'[c] # "woken")
                 => (cpc'[c] = "waiting" /\ rcvdLog' = rcvdLog)]_vars

C11_Witness ==
    \E c \in Consumers :
        /\ cpc[c] = "woken"
        /\ Len(_queue) = 0
        /\ Len(rcvdLog) = Len(sentLog)
        /\ Len(rcvdLog) > 0

\* C12: the light is a two-state machine that starts red and has no final
\* state; every toggle flips the phase and sends the new phase once, so the
\* k-th value sent is green for odd k and red for even k.
C12_Alternation ==
    /\ lpc \in {"tick", "send"}
    /\ (lpc = "send" \/ Len(_queue) < MaxQueue) => ENABLED cycleThroughPhases
    /\ lastSent = "none" => sentParity = 0
    /\ lastSent # "none" => (lastSent = "green" <=> sentParity = 1)
    /\ lpc = "tick" => _currentPhase = (IF lastSent = "none" THEN "red" ELSE lastSent)
    /\ lpc = "send" => _currentPhase = (IF sentParity = 0 THEN "green" ELSE "red")

C12_Witness ==
    /\ lastSent = "red"
    /\ sentParity = 0
    /\ lpc = "send"
    /\ _currentPhase = "green"

\* C13: every interval between two consecutive toggles lies within
\* [4000, 6000] milliseconds, on an integer millisecond clock read once per
\* sleep of at least one millisecond.
C13_DwellBounds ==
    lastInterval # 0 => (MinCycle <= lastInterval /\ lastInterval <= MaxCycle)

\* C13, amended: the interval is at least the duration drawn for the cycle,
\* hence at least 4000 ms, and exceeds it by less than the length of the sleep
\* that ended the cycle; it can pass 6000 ms.
C13_DwellAmended ==
    lastInterval # 0 =>
        /\ lastDuration \in MinCycle..MaxCycle
        /\ lastDuration <= lastInterval
        /\ lastInterval < lastDuration + MaxSleep

C13_Witness ==
    /\ lastSent = "red"
    /\ lastDuration = MaxCycle
    /\ lastInterval = MaxCycle + MaxSleep - 1

\* C14: waitForGreen() checks before it blocks: entered while the phase is
\* green, it returns without removing any value from the channel.
C14_CheckThenBlock ==
    \A v \in Vehicles : v \in calledGreen => removed[v] = 0

\* C14, amended: the check is made by addVehicleToQueue, not by waitForGreen.
\* A green reading at the check returns without touching the channel; after a
\* red reading waitForGreen receives value after value, discards red and
\* returns with the first green, having removed at least one value.
C14_CheckInCaller ==
    /\ [][\A v \in Vehicles :
             (pc[v] = "checkPhase" /\ pc'[v] # "checkPhase") =>
                 IF _currentPhase = "green"
                    THEN pc'[v] = "unlock" /\ _queue' = _queue /\ removed'[v] = 0
                    ELSE pc'[v] = "waitForGreen" /\ _queue' = _queue]_vars
    /\ [][\A v \in Vehicles :
             (pc[v] = "receive" /\ removed'[v] # removed[v]) =>
                 /\ Len(_queue) > 0
                 /\ _queue' = pop_front(_queue)
                 /\ removed'[v] = removed[v] + 1
                 /\ pc'[v] = (IF front(_queue) = "green" THEN "unlock" ELSE "receive")]_vars
    /\ [][\A v \in Vehicles :
             (pc[v] = "receive" /\ pc'[v] # "receive") => removed'[v] = removed[v] + 1]_vars
    /\ [](\A v \in Vehicles :
             pc[v] \in {"unlock", "crossing"} =>
                 IF v \in sawRed THEN removed[v] >= 1 /\ v \in gotGreen
                                 ELSE removed[v] = 0)

C14_Witness ==
    \E v \in Vehicles :
        /\ pc[v] = "unlock"
        /\ v \in sawRed
        /\ v \in gotGreen
        /\ removed[v] = 2

\* C15: getCurrentPhase() and trafficLightIsGreen() are read-only snapshots
\* that take no lock and never wait: the read is possible in every state, also
\* while _mutex and _mtx are held, it returns the phase of that moment, and it
\* leaves the channel, the phase, the waiting queue and the blocked flag as
\* they were.
C15_ReadOnlySnapshot ==
    /\ [](ENABLED drawTrafficObjects)
    /\ [](\A v \in Vehicles : pc[v] = "checkPhase" => ENABLED addVehicleToQueue_checkPhase(v))
    /\ [][(frameColor' # frameColor \/ \E v \in Vehicles : pc[v] = "checkPhase" /\ pc'[v] # "checkPhase")
            => UNCHANGED <<_queue, _currentPhase, lpc, _vehicles, _promises, promise,
                           _isBlocked, _mutex, _mtx>>]_vars
    /\ [][frameColor' # frameColor => frameColor' = _currentPhase]_vars

C15_Witness ==
    /\ frameColor = "green"
    /\ _currentPhase = "red"
    /\ _mtx # {}
    /\ _mutex # {}
    /\ Len(_queue) > 0

\* the transit states of a vehicle in addVehicleToQueue: 0 Idle (not yet
\* enqueued), 1 Waiting (enqueued, promise pending), 2 Admitted (promise
\* fulfilled, light not yet read), 3 CheckingLight (from the read of the phase
\* to the unlock), 4 Crossing (addVehicleToQueue has returned), 5 Departed
transit(v) ==
    CASE pc[v] \in {"idle", "pushBack", "pushBack2"} -> 0
      [] pc[v] = "wait" /\ promise[v] # "fulfilled" -> 1
      [] pc[v] = "wait" /\ promise[v] = "fulfilled" -> 2
      [] pc[v] = "lock" -> 2
      [] pc[v] \in {"checkPhase", "waitForGreen", "receive", "unlock"} -> 3
      [] pc[v] = "crossing" -> 4
      [] pc[v] = "departed" -> 5

\* C16: every vehicle passes through Idle, Waiting, Admitted, CheckingLight,
\* Crossing, Departed in this order, none skipped and none revisited; it reads
\* the phase or receives from the channel only after its own promise is
\* fulfilled, and vehicleHasLeft follows the return of addVehicleToQueue.
C16_TransitOrder ==
    /\ [](\A v \in Vehicles : transit(v) >= 2 => promise[v] = "fulfilled")
    /\ [][\A v \in Vehicles : transit(v)' \in {transit(v), transit(v) + 1}]_vars
    /\ [][\A v \in Vehicles :
             (removed'[v] > removed[v] \/ (pc[v] = "checkPhase" /\ pc'[v] # "checkPhase"))
                 => promise[v] = "fulfilled"]_vars
    /\ [][\A v \in Vehicles :
             (pc'[v] = "departed" /\ pc[v] # "departed") => returned(v)]_vars

C16_Witness ==
    /\ \E v \in Vehicles : transit(v) = 5
    /\ \E v \in Vehicles : transit(v) = 3 /\ removed[v] > 0
    /\ \E v \in Vehicles : transit(v) = 1

C18_BlockedFrame ==
    /\ [][(~_isBlocked /\ _isBlocked') =>
            (dpc = "setIsBlocked" /\ dpc' = "permit" /\ pc' = pc /\ _queue' = _queue)]_vars
    /\ [][(_isBlocked /\ ~_isBlocked') =>
            (\E v \in Vehicles : crossing(v) /\ pc'[v] = "departed") /\ dpc' = dpc]_vars
    /\ [][(\/ \E v \in Vehicles : pc'[v] # pc[v] /\ pc'[v] # "departed"
           \/ Len(_vehicles') > Len(_vehicles)
           \/ (dpc = "getSize" /\ dpc' # dpc)
           \/ lpc' # lpc
           \/ _queue' # _queue)
            => _isBlocked' = _isBlocked]_vars

C18_Witness ==
    /\ ~_isBlocked
    /\ Len(grantOrder) = 2
    /\ \E v \in Vehicles : pc[v] = "departed"
    /\ dpc = "setIsBlocked"

\* C19: the dispatcher never calls permitEntryToFirstInQueue on an empty
\* queue: from its size check to the grant the queue stays non-empty, also
\* when a pushBack runs in between, and the grant finds a promise at the front.
C19_GrantNonEmpty ==
    /\ ~ub
    /\ dpc # "ub"
    /\ dpc \in {"readBlocked", "setIsBlocked", "permit"} => Len(_vehicles) > 0
    /\ (dpc = "permit" /\ _mutex = {}) => Len(_promises) > 0
    /\ dpc = "erase" => (Len(_promises) > 0 /\ Len(_vehicles) > 0)

C19_Witness ==
    /\ dpc = "permit"
    /\ Len(_vehicles) = 2
    /\ Len(_promises) = 1
    /\ \E v \in Vehicles : pc[v] = "pushBack2"

\* the entries that were enqueued and whose promise is not yet fulfilled
pendingEntries == {v \in Range(pushOrder) : promise[v] = "pending"}

\* C20: set_value on the front promise and the erase of the front entry are
\* one critical section: whenever getSize can read the size it equals the
\* number of entries enqueued and not yet fulfilled, and between set_value and
\* the erase no pushBack and no getSize runs.
C20_GrantAtomic ==
    /\ [](_mutex = {} => /\ getSize(_vehicles) = Cardinality(pendingEntries)
                         /\ Len(_promises) = getSize(_vehicles))
    /\ [](dpc = "erase" => /\ _mutex = {Dispatcher}
                           /\ \A v \in Vehicles : pc[v] # "pushBack2"
                           /\ \A v \in Vehicles : ~ENABLED pushBack_vehicle(v)
                           /\ ~ENABLED processVehicleQueue_getSize)
    /\ [][dpc = "erase" =>
            \/ UNCHANGED <<_vehicles, _promises, dpc>>
            \/ /\ dpc' = "getSize"
               /\ _vehicles' = Tail(_vehicles)
               /\ _promises' = Tail(_promises)]_vars

C20_Witness ==
    /\ dpc = "erase"
    /\ Len(_vehicles) = 2
    /\ Cardinality(pendingEntries) = 1
    /\ \E v \in Vehicles : pc[v] = "pushBack"

\* C21: no lost wakeup. A consumer that sleeps in receive() on an empty
\* channel returns with a value once a send has been executed; send waits for
\* nothing but the mutex of the channel and appends exactly one value.
C21_NoLostWakeup ==
    /\ (cpc[TheConsumer] # "idle" /\ Len(_queue) > 0) ~> (cpc[TheConsumer] = "idle")
    /\ [](cpc[TheConsumer] = "waiting" => Len(_queue) = 0)
    /\ [](Len(sentLog) < MaxSends => \A msg \in TrafficLightPhase : ENABLED ch_send(msg))
    /\ [][sentLog' # sentLog =>
            /\ Len(sentLog') = Len(sentLog) + 1
            /\ _queue' = Append(_queue, sentLog'[Len(sentLog')])]_vars
    /\ [][(cpc[TheConsumer] # "idle" /\ cpc'[TheConsumer] = "idle") =>
            (Len(rcvdLog') = Len(rcvdLog) + 1 /\ ~popEmpty')]_vars

C21_Witness ==
    /\ cpc[TheConsumer] = "woken"
    /\ Len(_queue) = 1
    /\ Len(rcvdLog) = 1
    /\ Len(sentLog) = 2

\* the vehicles inside waitForGreen, receive included
inWaitForGreen == {v \in Vehicles : pc[v] \in {"waitForGreen", "receive"}}

\* C22: one consumer per channel. At most one thread is inside waitForGreen or
\* receive on the channel of the intersection, so no waiting vehicle takes a
\* green value from another.
C22_SingleConsumer ==
    /\ Cardinality(inWaitForGreen) <= 1
    /\ \A v \in inWaitForGreen : _mtx = {v}

C22_Witness ==
    /\ \E v \in Vehicles : pc[v] = "receive" /\ v \in admitted
    /\ \E v \in Vehicles : pc[v] = "wait" /\ promise[v] = "pending"
    /\ Len(_queue) = 0

\* C23: the flag is set before the grant. _isBlocked is true in the step that
\* fulfils a promise and stays true for as long as the vehicle of a fulfilled
\* promise has not called vehicleHasLeft, so a departing vehicle always finds
\* the flag set.
C23_BlockedBeforeGrant ==
    /\ [](\A v \in Vehicles :
             (promise[v] = "fulfilled" /\ pc[v] # "departed") => _isBlocked)
    /\ [][\A v \in Vehicles :
             (promise[v] # "fulfilled" /\ promise'[v] = "fulfilled")
                 => (_isBlocked /\ _isBlocked' /\ dpc = "permit")]_vars
    /\ [][\A v \in Vehicles :
             (pc[v] # "departed" /\ pc'[v] = "departed")
                 => (_isBlocked /\ ~_isBlocked')]_vars

C23_Witness ==
    /\ _isBlocked
    /\ dpc = "erase"
    /\ Len(grantOrder) = 2
    /\ pc[grantOrder[2]] = "wait"
    /\ pc[grantOrder[1]] = "departed"

\* the vehicles between the log of their grant and the unlock at the return
atLight == {v \in Vehicles : pc[v] \in {"checkPhase", "waitForGreen", "receive", "unlock"}}

\* C24: a vehicle holds _mtx from the log of its grant to its return from
\* addVehicleToQueue, its wait for green included; in that interval no other
\* vehicle passes the first log step of addVehicleToQueue, hence none that has
\* not passed it is enqueued, and no other granted vehicle reaches its own
\* light check.
C24_MtxHeldAtLight ==
    /\ [](\A v \in atLight : _mtx = {v})
    /\ [](\A v \in atLight : \A w \in Vehicles \ {v} :
             /\ ~ENABLED addVehicleToQueue_log(w)
             /\ ~ENABLED addVehicleToQueue_lock(w))
    /\ [][\A v \in atLight : \A w \in Vehicles \ {v} :
             /\ pc[w] = "idle" => (pc'[w] = "idle" /\ w \notin Range(_vehicles'))
             /\ pc[w] = "lock" => pc'[w] = "lock"]_vars
    /\ [][\A v \in Vehicles :
             (_mtx = {v} /\ _mtx' # {v}) => (pc[v] = "unlock" /\ pc'[v] = "crossing")]_vars

C24_Witness ==
    \E v, w, u \in Vehicles :
        /\ pc[v] = "receive"
        /\ Len(_queue) = 0
        /\ pc[w] = "lock"
        /\ promise[w] = "fulfilled"
        /\ pc[u] = "idle"

\* C25: the values in the message queue alternate between red and green, and
\* whenever the light is not between its assignment of the phase and its send
\* the last value in the queue, if there is one, is the current phase.
C25_BufferAlternates ==
    /\ \A i \in 1..(Len(_queue) - 1) : _queue[i] # _queue[i + 1]
    /\ (lpc = "tick" /\ Len(_queue) > 0) => _queue[Len(_queue)] = _currentPhase
    /\ (lpc = "send" /\ Len(_queue) > 0) => _queue[Len(_queue)] # _currentPhase

C25_Witness ==
    /\ lpc = "tick"
    /\ Len(_queue) = MaxQueue
    /\ _queue[1] = "red"
    /\ \E v \in Vehicles : pc[v] = "receive"

\* C26: no value is dropped or merged. The length of the message queue is the
\* number of values sent minus the number received; only the send of the
\* light adds a value, only the receive of a granted vehicle that read red
\* removes one, and the send never waits for room, so the queue grows with
\* every toggle while no vehicle waits for green.
C26_NothingDropped ==
    /\ [](Len(_queue) = outstanding)
    /\ [](lpc = "send" => ENABLED cycleThroughPhases_send)
    /\ [][Len(_queue') > Len(_queue) =>
            (lpc = "send" /\ lpc' = "tick" /\ _queue' = Append(_queue, _currentPhase))]_vars
    /\ [][Len(_queue') < Len(_queue) =>
            \E v \in Vehicles :
                /\ pc[v] = "receive"
                /\ v \in sawRed
                /\ promise[v] = "fulfilled"
                /\ removed'[v] = removed[v] + 1
                /\ _queue' = Tail(_queue)]_vars
    /\ [][Len(_queue') = Len(_queue) => _queue' = _queue]_vars

C26_Witness ==
    /\ Len(_queue) = MaxQueue
    /\ outstanding = MaxQueue
    /\ \A v \in Vehicles : pc[v] \in {"idle", "pushBack", "pushBack2", "wait"}
    /\ Len(grantOrder) = 0

\* C27: with one consumer per channel a call of waitForGreen removes at most
\* two values from the message queue: one green, or one red and then one green.
C27_AtMostTwo ==
    /\ [](\A v \in Vehicles : removed[v] <= 2)
    /\ [][\A v \in Vehicles :
             removed'[v] = removed[v] + 1 =>
                 /\ pc[v] = "receive"
                 /\ IF front(_queue) = "green"
                       THEN removed[v] <= 1 /\ pc'[v] = "unlock"
                       ELSE removed[v] = 0 /\ pc'[v] = "receive"]_vars

C27_Witness ==
    \E v \in Vehicles :
        /\ pc[v] = "crossing"
        /\ removed[v] = 2
        /\ Len(_queue) = MaxQueue

\* C28: _vehicles and _promises stay aligned. Outside the critical sections
\* of the queue they have the same length and the i-th promise is the one
\* made by the call of addVehicleToQueue that pushed the i-th vehicle; inside
\* pushBack only the last vehicle lacks its promise.
C28_Aligned ==
    /\ _mutex = {} => /\ Len(_vehicles) = Len(_promises)
                      /\ \A i \in 1..Len(_vehicles) : _promises[i] = _vehicles[i]
    /\ \A v \in Vehicles :
           pc[v] = "pushBack2" => /\ _mutex = {v}
                                  /\ _vehicles = Append(_promises, v)
    /\ dpc = "erase" => _vehicles = _promises
    /\ \A i, j \in 1..Len(_vehicles) : _vehicles[i] = _vehicles[j] => i = j

C28_Witness ==
    /\ _mutex = {}
    /\ Len(_vehicles) = 2
    /\ Len(_promises) = 2
    /\ Len(grantOrder) = 1
    /\ dpc = "getSize"

====
